---- MODULE Spec2Model ----
(***************************************************************************)
(* Hydration tracker (HomePage component, 2D page and its 3D twin).        *)
(*                                                                         *)
(* The component is single-threaded and callback driven.  One step of the  *)
(* model is one callback of the browser's event loop (an event handler, an *)
(* interval or timeout firing, a promise settling) together with the       *)
(* re-render and the effects React runs because of it.                     *)
(*                                                                         *)
(* Numbers.  currentWaterLevel is a float percentage in the source.  Here  *)
(* it is an integer count of grains, FullLevel grains being 100 percent;   *)
(* FullLevel is chosen so that every per-tick decrement is a whole number  *)
(* of grains.  Time is scaled: a slider step (15 minutes, 900 one-second   *)
(* ticks in the source) lasts TicksPerStep ticks, which keeps the ratio    *)
(* between the decrements of different durations.  Floating-point rounding *)
(* matters in one place only, the test newLevel <= 0 when the exact result *)
(* is zero: the rounded result is then either <= 0 or a positive residue   *)
(* smaller than any decrement, and the model takes both outcomes.          *)
(***************************************************************************)
EXTENDS Integers, FiniteSets, Sequences, TLC

\* ---------------------------------------------------------------- bounds
\* slider positions above the minimum that the model explores
NumSliderSteps == 2
\* ticks of the recurring task per slider step of the duration
TicksPerStep == 1
\* grains into which the smallest decrement is divided (residue = 1 grain)
Precision == 2
\* pending message auto-dismiss timeouts
MaxPendingTimeouts == 3
\* pending visual-flash removal timeouts
MaxFlashTimeouts == 2
\* pending notification permission requests
MaxPendingRequests == 1
\* fill levels tried on the colour computations, per percent
ProbeScale == 10
\* longest candidates and parts list in a tip response
MaxListLen == 2

\* ------------------------------------------------------ program constants
SliderMin == 30
SliderMax == 240
SliderStep == 15
DefaultDuration == 60

Null == 0

BodyTypes == {"generic", "slim", "muscular"}
Channels == {"browser", "sound", "visual"}
Permissions == {"default", "granted", "denied"}

AllOff == [browser |-> FALSE, sound |-> FALSE, visual |-> FALSE]
SettingsSpace == [browser : BOOLEAN, sound : BOOLEAN, visual : BOOLEAN]

\* the messages handed to showMessage
MsgNone == ""
MsgTimeToDrink == "Time to drink water!"
MsgHydrationReset == "Hydration reset! Drink up!"
MsgAllReset == "All settings reset!"
MsgUnsupported == "This browser does not support desktop notifications."
MsgEnabled == "Browser notifications enabled!"
MsgDenied == "Browser notifications denied. Please enable them in your browser settings."
MsgTipFailed == "Failed to get a tip. Please check your connection."
MsgWelcome == "Welcome! Stay hydrated!"

Messages == {MsgTimeToDrink, MsgHydrationReset, MsgAllReset, MsgUnsupported,
             MsgEnabled, MsgDenied, MsgTipFailed, MsgWelcome}

\* the duration in milliseconds each message is shown with (3000 where the
\* call leaves the parameter to its default)
MessageDuration(message) ==
    CASE message = MsgTimeToDrink -> 5000
      [] message \in {MsgHydrationReset, MsgAllReset} -> 2000
      [] OTHER -> 3000

\* the messages whose dismissal timeout is due after that of any message
\* shown earlier
LongestMessages ==
    {m \in Messages : \A n \in Messages : MessageDuration(n) <= MessageDuration(m)}

\* the values hydrationTip takes
TipNone == ""
TipText == "<text of the first part of the first candidate>"
TipUndefined == "<undefined>"
TipMalformed == "Could not fetch a tip. Please try again."
TipNetwork == "Failed to get a tip. Network error or API issue."

Hidden == [message |-> MsgNone, visible |-> FALSE]

\* values the range input can deliver, restricted to the explored positions
Durations ==
    {d \in SliderMin..SliderMax :
        /\ (d - SliderMin) % SliderStep = 0
        /\ d <= SliderMin + NumSliderSteps * SliderStep}

\* ------------------------------------------------------ the range input
\* the decimal digits of n, most significant first: how the range input
\* reports its value in event.target.value
RECURSIVE Digits(_)
Digits(n) == IF n < 10 THEN <<n>> ELSE Append(Digits(n \div 10), n % 10)

\* the strings the range input can deliver (min, max and step are enforced by
\* the input), restricted to the explored positions
SliderValues == {Digits(d) : d \in Durations}

\* variant: only the first digit is read
ParseIntFirstDigit(v) == v[1]

\* parseInt of a string of decimal digits
RECURSIVE ParseInt(_)
ParseInt(v) ==
    IF Len(v) = 1 THEN v[1]
    ELSE 10 * ParseInt(SubSeq(v, 1, Len(v) - 1)) + v[Len(v)]

\* ------------------------------------------------------------- arithmetic
RECURSIVE GCD(_, _)
GCD(a, b) == IF b = 0 THEN a ELSE GCD(b, a % b)

LCM(a, b) == (a * b) \div GCD(a, b)

RECURSIVE LCMOfSet(_)
LCMOfSet(S) ==
    IF S = {} THEN 1
    ELSE LET x == CHOOSE y \in S : TRUE
         IN LCM(x, LCMOfSet(S \ {x}))

\* number of ticks a full depletion takes: timerDuration * 60 in the source
TicksFor(d) == (d * TicksPerStep) \div SliderStep

\* 100 percent, in grains
FullLevel == Precision * LCMOfSet({TicksFor(d) : d \in Durations})

\* 100 / (timerDuration * 60)
WaterDecreasePerSecond(d) == FullLevel \div TicksFor(d)

\* the positive residue a rounded subtraction can leave where the exact
\* result is zero
Residue == 1

Pages == {"2d", "3d"}

\* ------------------------------------------------------------ fill colour
\* colour thresholds, in percent
AlertBelow == 30
WarningBelow == 60

\* the 3D page passes the same three colours as the numbers 0xef4444,
\* 0xf97316 and 0x60a5fa
AlertColour == "#ef4444"
WarningColour == "#f97316"
NormalColour == "#60a5fa"

\* a percentage p is the integer p * ProbeScale, so that 29.9 and 30.0 differ
Percent(p) == p * ProbeScale

ProbeLevels == 0..Percent(100)

\* variant: the alert threshold is inclusive
FillColour2DInclusive(level) ==
    IF level <= Percent(AlertBelow) THEN AlertColour
    ELSE IF level < Percent(WarningBelow) THEN WarningColour
    ELSE NormalColour

\* updateWaterLevelVisual of the 2D page: waterFillDiv.style.backgroundColor
FillColour2D(level) ==
    IF level < Percent(AlertBelow) THEN AlertColour
    ELSE IF level < Percent(WarningBelow) THEN WarningColour
    ELSE NormalColour

\* updateWaterLevelVisual of the 3D page: material.color.setHex
FillColour3D(level) ==
    IF level < Percent(AlertBelow) THEN AlertColour
    ELSE IF level < Percent(WarningBelow) THEN WarningColour
    ELSE NormalColour

\* HumanModel3D, the color of the water cylinder's material
ModelColour(waterLevel) ==
    IF waterLevel < Percent(AlertBelow) THEN AlertColour
    ELSE (IF waterLevel < Percent(WarningBelow) THEN WarningColour
          ELSE NormalColour)

\* HumanModel3D: heights of the scene as integers.  A fill level is in
\* 1/ProbeScale percent; a length is in units of 1/(2 * Percent(100)), which
\* makes the centre and both ends of the water cylinder whole numbers
Halves(n) == n * Percent(100)

BodyPositionY == 0
BodyHeight == 3

\* a cylinderGeometry is centred on the position of its mesh
Extent(positionY, height) ==
    [bottom |-> positionY - height \div 2, top |-> positionY + height \div 2]

BodyExtent == Extent(Halves(2 * BodyPositionY), Halves(2 * BodyHeight))

\* (waterLevel / 100) * 3, the height argument of the water cylinder
WaterHeight(waterLevel) == (waterLevel * Halves(2 * 3)) \div Percent(100)

\* -1.5 + (waterLevel / 100) * 3, the y position of the water cylinder's mesh
WaterPositionY(waterLevel) ==
    (0 - Halves(3)) + (waterLevel * Halves(2 * 3)) \div Percent(100)

WaterExtent(waterLevel) == Extent(WaterPositionY(waterLevel), WaterHeight(waterLevel))

NoProbe == [level |-> 0, page2d |-> "", page3d |-> "", model |-> "",
            water |-> [bottom |-> 0, top |-> 0]]

VARIABLES
    page,                 \* which of the two HomePage components is rendered
    phase,                \* "created" (rendered, effects not run), "mounted",
                          \* "unmounted", "crashed" (render threw, tree removed)
    notificationInWindow, \* platform: "Notification" in window
    permission,           \* platform: Notification.permission
    pendingRequests,      \* platform: requestPermission() promises not settled
    currentWaterLevel,
    timerDuration,
    selectedBodyType,
    reminderSettings,
    hydrationTip,
    isLoadingTip,
    tipRequests,          \* fetch() calls whose promise has not settled
    messageBox,
    dismissTimeouts,      \* setTimeout callbacks of showMessage not yet run
    hydrationIntervalRef, \* handle in the ref, or Null
    intervals,            \* live setInterval tasks, each with the values its
                          \* callback closed over
    flashOn,              \* body container carries the highlight classes
    flashTimeouts,        \* setTimeout callbacks of applyVisualFlash not yet run
    dispatched,           \* channel callbacks invoked by triggerReminder in
                          \* the last step; NoSignal if it was not called
    cycleTicks,           \* history: ticks since the level was set to full, if
                          \* the user has done nothing since; -1 otherwise
    fillProbe,            \* a fill level handed to the three fill-colour
                          \* computations and to HumanModel3D, with the
                          \* colours and the water cylinder they returned
    completed,            \* history: what the tip request completed with, if
                          \* the last step processed a response; NoResponse
                          \* otherwise
    resetDuringFetch      \* history: 'Reset All' ran while a tip request was
                          \* outstanding, and since then that request has not
                          \* completed and the tip fetcher was not invoked

viewVars == <<currentWaterLevel, timerDuration, selectedBodyType,
              reminderSettings, hydrationTip, isLoadingTip, messageBox>>
timerVars == <<hydrationIntervalRef, intervals>>
platformVars == <<notificationInWindow, permission, pendingRequests,
                  tipRequests, dismissTimeouts, flashOn, flashTimeouts>>
vars == <<page, phase, viewVars, timerVars, platformVars, dispatched, cycleTicks,
          fillProbe, completed, resetDuringFetch>>


\* completed when the last step processed no response
NoResponse == [fetch |-> "none", ok |-> FALSE, json |-> "invalid",
               candidates |-> 0 - 1, content |-> FALSE, parts |-> 0 - 1,
               text |-> "missing"]

NoSignal == [called |-> FALSE, channels |-> {}, notification |-> FALSE,
             audioFailed |-> FALSE]

Mounted == phase = "mounted"

\* the component instance exists, so its state setters take effect
Alive == phase \in {"created", "mounted"}

\* ------------------------------------------------------------ showMessage
\* variant: the setter also takes effect on a view that is gone
ShowMessageOnDeadView(m, message) ==
    [box |-> [message |-> message, visible |-> TRUE],
     timeouts |-> m.timeouts + 1]

\* m = [box, timeouts]: the message box and the pending dismiss timeouts.
\* setMessageBox on a view that is gone changes nothing; setTimeout still
\* registers its callback.
ShowMessage(m, message) ==
    [box |-> IF Alive THEN [message |-> message, visible |-> TRUE] ELSE m.box,
     timeouts |-> m.timeouts + 1]

Msgs == [box |-> messageBox, timeouts |-> dismissTimeouts]

\* ----------------------------------------------------- the recurring task
\* ts = [ref, live]: hydrationIntervalRef.current and the live tasks
Timer == [ref |-> hydrationIntervalRef, live |-> intervals]

Handles(live) == {t.id : t \in live}

ClearInterval(live, h) == {t \in live : t.id # h}

\* setInterval returns a handle no earlier call returned
FreshHandle(ts) ==
    CHOOSE h \in 1..(Cardinality(ts.live) + 2) :
        /\ h # ts.ref
        /\ h \notin Handles(ts.live)
        /\ \A g \in 1..(h - 1) : g = ts.ref \/ g \in Handles(ts.live)

\* variant: the previous handle is not cleared before the new task is created
StartHydrationTimerNoClear(ts, d, s) ==
    LET h == FreshHandle(ts)
    IN [ref |-> h,
        live |-> ts.live \cup {[id |-> h, duration |-> d, settings |-> s]}]

\* variant: the new handle is not stored in the ref
StartHydrationTimerRefNotSet(ts, d, s) ==
    LET live1 == IF ts.ref # Null THEN ClearInterval(ts.live, ts.ref) ELSE ts.live
        h == FreshHandle([ref |-> ts.ref, live |-> live1])
    IN [ref |-> ts.ref,
        live |-> live1 \cup {[id |-> h, duration |-> d, settings |-> s]}]

\* startHydrationTimer as created by the render that saw duration d and
\* settings s: its decrementWaterLevel closes over d and over triggerReminder(s)
StartHydrationTimer(ts, d, s) ==
    LET live1 == IF ts.ref # Null THEN ClearInterval(ts.live, ts.ref) ELSE ts.live
        h == FreshHandle([ref |-> ts.ref, live |-> live1])
    IN [ref |-> h,
        live |-> live1 \cup {[id |-> h, duration |-> d, settings |-> s]}]

\* variant: the effect has no cleanup
TimerCleanupNone(ts) == ts

\* cleanup of the timer effect: clears the handle, leaves it in the ref
TimerCleanup(ts) ==
    [ref |-> ts.ref,
     live |-> IF ts.ref # Null THEN ClearInterval(ts.live, ts.ref) ELSE ts.live]

\* variant: the effect does not depend on timerDuration
TimerEffectOnSettingsOnly(ts, dOld, dNew, settingsReplaced, sNew) ==
    IF settingsReplaced
    THEN StartHydrationTimer(TimerCleanup(ts), dNew, sNew)
    ELSE ts

\* variant: the effect is not re-run after the first render
TimerEffectNotRun(ts, dOld, dNew, settingsReplaced, sNew) == ts

\* variant: the effect does not depend on startHydrationTimer
TimerEffectOnDurationOnly(ts, dOld, dNew, settingsReplaced, sNew) ==
    IF dNew # dOld
    THEN StartHydrationTimer(TimerCleanup(ts), dNew, sNew)
    ELSE ts

\* variant: the effect body does not start a task
TimerEffectCleanupOnly(ts, dOld, dNew, settingsReplaced, sNew) ==
    IF dNew # dOld \/ settingsReplaced
    THEN TimerCleanup(ts)
    ELSE ts

\* the timer effect after a render: it re-runs (cleanup, then body) when
\* timerDuration changed or startHydrationTimer is a new function, which it
\* is whenever reminderSettings is a new object
TimerEffect(ts, dOld, dNew, settingsReplaced, sNew) ==
    IF dNew # dOld \/ settingsReplaced
    THEN StartHydrationTimer(TimerCleanup(ts), dNew, sNew)
    ELSE ts

\* the initial-setup effect (dependencies showMessage, selectedBodyType): it
\* runs on mount and again after a render that changed selectedBodyType; the
\* 3D page shows the welcome message in it, the 2D page only styles a button
SetupEffect(m, changed) ==
    IF page = "3d" /\ changed THEN ShowMessage(m, MsgWelcome) ELSE m

\* ------------------------------------------------------- triggerReminder
\* what the promise returned by play() settles with
AudioOutcomes == {"played", "rejected"}

\* variant: the rejection of play() is not caught
PlayReminderSoundUncaught(audio) ==
    [throws |-> audio = "rejected", failed |-> audio = "rejected"]

\* playReminderSound: a rejected play() is logged by the catch handler
PlayReminderSound(audio) ==
    [throws |-> FALSE, failed |-> audio = "rejected"]

\* variant: the notification is created whatever the permission is
SendBrowserNotificationUnchecked ==
    [throws |-> ~notificationInWindow, created |-> notificationInWindow]

\* sendBrowserNotification reads Notification.permission unguarded: where
\* the platform has no Notification this is a ReferenceError
SendBrowserNotification ==
    [throws |-> ~notificationInWindow,
     created |-> notificationInWindow /\ permission = "granted"]

\* s: the reminderSettings the calling closure saw; audio: how play() settles
\* if it is called.  The channels are called in the order browser, sound,
\* visual, and a throw ends the call before the channels after it
TriggerReminder(s, audio) ==
    LET browser == IF s.browser
                   THEN SendBrowserNotification
                   ELSE [throws |-> FALSE, created |-> FALSE]
        sound == IF s.sound /\ ~browser.throws
                 THEN PlayReminderSound(audio)
                 ELSE [throws |-> FALSE, failed |-> FALSE]
        throws == browser.throws \/ sound.throws
    IN [throws |-> throws,
        channels |-> {c \in Channels :
                        /\ s[c]
                        /\ c = "sound" => ~browser.throws
                        /\ c = "visual" => ~throws},
        notification |-> browser.created,
        audioFailed |-> sound.failed,
        flash |-> s.visual /\ ~throws]

\* results the rounded subtraction prevLevel - waterDecreasePerSecond can have
Rounded(exact) == IF exact = 0 THEN {0, Residue} ELSE {exact}

NextCycleTick ==
    IF cycleTicks >= 0 /\ currentWaterLevel > 0 THEN cycleTicks + 1 ELSE 0 - 1

Init ==
    /\ page \in Pages
    /\ phase = "created"
    /\ notificationInWindow \in BOOLEAN
    /\ permission \in (IF notificationInWindow THEN Permissions ELSE {"default"})
    /\ pendingRequests = 0
    /\ currentWaterLevel = FullLevel
    /\ timerDuration = DefaultDuration
    /\ selectedBodyType = "generic"
    /\ reminderSettings = AllOff
    /\ hydrationTip = TipNone
    /\ isLoadingTip = FALSE
    /\ tipRequests = 0
    /\ messageBox = Hidden
    /\ dismissTimeouts = 0
    /\ hydrationIntervalRef = Null
    /\ intervals = {}
    /\ flashOn = FALSE
    /\ flashTimeouts = 0
    /\ dispatched = NoSignal
    /\ cycleTicks = 0 - 1
    /\ fillProbe = NoProbe
    /\ completed = NoResponse
    /\ resetDuringFetch = FALSE

\* the effects of the first render, in declaration order
Mount ==
    /\ phase = "created"
    /\ phase' = "mounted"
    /\ LET ts == StartHydrationTimer(Timer, timerDuration, reminderSettings)
           m == SetupEffect(Msgs, TRUE)
       IN /\ m.timeouts <= MaxPendingTimeouts
          /\ hydrationIntervalRef' = ts.ref
          /\ intervals' = ts.live
          /\ messageBox' = m.box
          /\ dismissTimeouts' = m.timeouts
    /\ cycleTicks' = 0
    /\ dispatched' = NoSignal
    /\ completed' = NoResponse
    /\ resetDuringFetch' = resetDuringFetch
    /\ UNCHANGED <<page, fillProbe, currentWaterLevel, timerDuration, selectedBodyType,
                   reminderSettings, hydrationTip, isLoadingTip>>
    /\ UNCHANGED <<notificationInWindow, permission, pendingRequests,
                   tipRequests, flashOn, flashTimeouts>>

\* decrementWaterLevel, updater branch newLevel > 0
Deplete(newLevel) ==
    /\ currentWaterLevel' = newLevel
    /\ cycleTicks' = NextCycleTick
    /\ dispatched' = NoSignal
    /\ completed' = NoResponse
    /\ resetDuringFetch' = resetDuringFetch
    /\ UNCHANGED <<page, fillProbe, phase, timerDuration, selectedBodyType, reminderSettings,
                   hydrationTip, isLoadingTip, messageBox>>
    /\ UNCHANGED <<timerVars, platformVars>>

\* decrementWaterLevel, updater branch newLevel <= 0, run by the task t
ReachEmpty(t) ==
    \E audio \in AudioOutcomes :
    LET live1 == IF hydrationIntervalRef # Null
                 THEN ClearInterval(intervals, hydrationIntervalRef)
                 ELSE intervals
        r == TriggerReminder(t.settings, audio)
        m == ShowMessage(Msgs, MsgTimeToDrink)
    IN /\ intervals' = live1
       /\ hydrationIntervalRef' = Null
       /\ cycleTicks' = NextCycleTick
       /\ dispatched' = [called |-> TRUE, channels |-> r.channels,
                         notification |-> r.notification,
                         audioFailed |-> r.audioFailed]
       /\ completed' = NoResponse
       /\ resetDuringFetch' = resetDuringFetch
       /\ IF r.throws
          THEN \* the updater throws, the render fails and React removes the tree
               /\ phase' = "crashed"
               /\ UNCHANGED <<viewVars, platformVars>>
          ELSE /\ m.timeouts <= MaxPendingTimeouts
               /\ r.flash => flashTimeouts < MaxFlashTimeouts
               /\ currentWaterLevel' = 0
               /\ messageBox' = m.box
               /\ dismissTimeouts' = m.timeouts
               /\ flashOn' = (flashOn \/ r.flash)
               /\ flashTimeouts' = flashTimeouts + (IF r.flash THEN 1 ELSE 0)
               /\ UNCHANGED <<phase, timerDuration, selectedBodyType,
                              reminderSettings, hydrationTip, isLoadingTip>>
               /\ UNCHANGED <<notificationInWindow, permission, pendingRequests,
                              tipRequests>>
       /\ UNCHANGED <<page, fillProbe>>

\* variant: the updater returns newLevel without the clamp
TickNoClamp ==
    /\ Mounted
    /\ \E t \in intervals :
         Deplete(currentWaterLevel - WaterDecreasePerSecond(t.duration))

\* one firing of a live recurring task
Tick ==
    /\ Mounted
    /\ \E t \in intervals :
         \E newLevel \in Rounded(currentWaterLevel - WaterDecreasePerSecond(t.duration)) :
            IF newLevel <= 0 THEN ReachEmpty(t) ELSE Deplete(newLevel)

\* variant: the slider also refills the level
HandleTimerChangeRefill(d) ==
    /\ Mounted
    /\ d # timerDuration
    /\ timerDuration' = d
    /\ currentWaterLevel' = FullLevel
    /\ LET ts == TimerEffect(Timer, timerDuration, d, FALSE, reminderSettings)
       IN /\ hydrationIntervalRef' = ts.ref
          /\ intervals' = ts.live
    /\ cycleTicks' = 0 - 1
    /\ dispatched' = NoSignal
    /\ completed' = NoResponse
    /\ resetDuringFetch' = resetDuringFetch
    /\ UNCHANGED <<page, fillProbe, phase, selectedBodyType,
                   reminderSettings, hydrationTip, isLoadingTip, messageBox>>
    /\ UNCHANGED platformVars

\* handleTimerChange, then the render and the timer effect
HandleTimerChange(d) ==
    /\ Mounted
    /\ d # timerDuration
    /\ timerDuration' = d
    /\ LET ts == TimerEffect(Timer, timerDuration, d, FALSE, reminderSettings)
       IN /\ hydrationIntervalRef' = ts.ref
          /\ intervals' = ts.live
    /\ cycleTicks' = 0 - 1
    /\ dispatched' = NoSignal
    /\ completed' = NoResponse
    /\ resetDuringFetch' = resetDuringFetch
    /\ UNCHANGED <<page, fillProbe, phase, currentWaterLevel, selectedBodyType,
                   reminderSettings, hydrationTip, isLoadingTip, messageBox>>
    /\ UNCHANGED platformVars

\* requestNotificationPermission: q = [m, requests]
RequestNotificationPermission(q) ==
    IF ~notificationInWindow
    THEN [m |-> ShowMessage(q.m, MsgUnsupported), requests |-> q.requests]
    ELSE IF permission # "granted" /\ permission # "denied"
         THEN [m |-> q.m, requests |-> q.requests + 1]
         ELSE q

\* variant: the previous settings are not spread into the new object
NewSettingsNoSpread(prev, c, checked) == [AllOff EXCEPT ![c] = checked]

\* { ...prev, [channel]: checked }
NewSettings(prev, c, checked) == [prev EXCEPT ![c] = checked]

\* handleReminderChange for the checkbox of channel c, then the render and
\* the timer effect (the updater always returns a new settings object)
HandleReminderChange(c) ==
    /\ Mounted
    /\ LET checked == ~reminderSettings[c]
           newSettings == NewSettings(reminderSettings, c, checked)
           q0 == [m |-> Msgs, requests |-> pendingRequests]
           q == IF c = "browser" /\ checked
                THEN RequestNotificationPermission(q0)
                ELSE q0
           ts == TimerEffect(Timer, timerDuration, timerDuration, TRUE, newSettings)
       IN /\ q.m.timeouts <= MaxPendingTimeouts
          /\ q.requests <= MaxPendingRequests
          /\ reminderSettings' = newSettings
          /\ messageBox' = q.m.box
          /\ dismissTimeouts' = q.m.timeouts
          /\ pendingRequests' = q.requests
          /\ hydrationIntervalRef' = ts.ref
          /\ intervals' = ts.live
    /\ cycleTicks' = 0 - 1
    /\ dispatched' = NoSignal
    /\ completed' = NoResponse
    /\ resetDuringFetch' = resetDuringFetch
    /\ UNCHANGED <<page, fillProbe, phase, currentWaterLevel, timerDuration, selectedBodyType,
                   hydrationTip, isLoadingTip>>
    /\ UNCHANGED <<notificationInWindow, permission, tipRequests, flashOn,
                   flashTimeouts>>

\* handleBodyTypeChange, then the render and the initial-setup effect
HandleBodyTypeChange(b) ==
    /\ Mounted
    /\ selectedBodyType' = b
    /\ LET m == SetupEffect(Msgs, b # selectedBodyType)
       IN /\ m.timeouts <= MaxPendingTimeouts
          /\ messageBox' = m.box
          /\ dismissTimeouts' = m.timeouts
    /\ cycleTicks' = 0 - 1
    /\ dispatched' = NoSignal
    /\ completed' = NoResponse
    /\ resetDuringFetch' = resetDuringFetch
    /\ UNCHANGED <<page, fillProbe, phase, currentWaterLevel, timerDuration, reminderSettings,
                   hydrationTip, isLoadingTip>>
    /\ UNCHANGED timerVars
    /\ UNCHANGED <<notificationInWindow, permission, pendingRequests,
                   tipRequests, flashOn, flashTimeouts>>

\* variant: the level is refilled but the timer is not restarted
ResetHydrationNoRestart ==
    /\ Mounted
    /\ currentWaterLevel' = FullLevel
    /\ LET ts == Timer
           m == ShowMessage(Msgs, MsgHydrationReset)
       IN /\ m.timeouts <= MaxPendingTimeouts
          /\ hydrationIntervalRef' = ts.ref
          /\ intervals' = ts.live
          /\ messageBox' = m.box
          /\ dismissTimeouts' = m.timeouts
    /\ cycleTicks' = 0
    /\ dispatched' = NoSignal
    /\ completed' = NoResponse
    /\ resetDuringFetch' = resetDuringFetch
    /\ UNCHANGED <<page, fillProbe, phase, timerDuration, selectedBodyType, reminderSettings,
                   hydrationTip, isLoadingTip>>
    /\ UNCHANGED <<notificationInWindow, permission, pendingRequests,
                   tipRequests, flashOn, flashTimeouts>>

\* resetHydration ('Drink Now!'): no dependency of the timer effect changes
ResetHydration ==
    /\ Mounted
    /\ currentWaterLevel' = FullLevel
    /\ LET ts == StartHydrationTimer(Timer, timerDuration, reminderSettings)
           m == ShowMessage(Msgs, MsgHydrationReset)
       IN /\ m.timeouts <= MaxPendingTimeouts
          /\ hydrationIntervalRef' = ts.ref
          /\ intervals' = ts.live
          /\ messageBox' = m.box
          /\ dismissTimeouts' = m.timeouts
    /\ cycleTicks' = 0
    /\ dispatched' = NoSignal
    /\ completed' = NoResponse
    /\ resetDuringFetch' = resetDuringFetch
    /\ UNCHANGED <<page, fillProbe, phase, timerDuration, selectedBodyType, reminderSettings,
                   hydrationTip, isLoadingTip>>
    /\ UNCHANGED <<notificationInWindow, permission, pendingRequests,
                   tipRequests, flashOn, flashTimeouts>>

\* variant: the tip is not cleared
ResetAllKeepsTip ==
    /\ Mounted
    /\ timerDuration' = DefaultDuration
    /\ reminderSettings' = AllOff
    /\ selectedBodyType' = "generic"
    /\ currentWaterLevel' = FullLevel
    /\ LET ts1 == StartHydrationTimer(Timer, timerDuration, reminderSettings)
           ts == TimerEffect(ts1, timerDuration, DefaultDuration, TRUE, AllOff)
           m1 == ShowMessage(Msgs, MsgHydrationReset)
           m2 == ShowMessage(m1, MsgAllReset)
           m == SetupEffect(m2, selectedBodyType # "generic")
       IN /\ m.timeouts <= MaxPendingTimeouts
          /\ hydrationIntervalRef' = ts.ref
          /\ intervals' = ts.live
          /\ messageBox' = m.box
          /\ dismissTimeouts' = m.timeouts
    /\ cycleTicks' = 0
    /\ dispatched' = NoSignal
    /\ completed' = NoResponse
    /\ resetDuringFetch' = (tipRequests > 0)
    /\ UNCHANGED <<page, fillProbe, phase, hydrationTip, isLoadingTip>>
    /\ UNCHANGED <<notificationInWindow, permission, pendingRequests,
                   tipRequests, flashOn, flashTimeouts>>

\* the 'Reset All' click handler: the setters, resetHydration() of the
\* current render (old duration, old settings), showMessage, then the render,
\* the timer effect and the initial-setup effect
ResetAll ==
    /\ Mounted
    /\ timerDuration' = DefaultDuration
    /\ reminderSettings' = AllOff
    /\ selectedBodyType' = "generic"
    /\ hydrationTip' = TipNone
    /\ currentWaterLevel' = FullLevel
    /\ LET ts1 == StartHydrationTimer(Timer, timerDuration, reminderSettings)
           ts == TimerEffect(ts1, timerDuration, DefaultDuration, TRUE, AllOff)
           m1 == ShowMessage(Msgs, MsgHydrationReset)
           m2 == ShowMessage(m1, MsgAllReset)
           m == SetupEffect(m2, selectedBodyType # "generic")
       IN /\ m.timeouts <= MaxPendingTimeouts
          /\ hydrationIntervalRef' = ts.ref
          /\ intervals' = ts.live
          /\ messageBox' = m.box
          /\ dismissTimeouts' = m.timeouts
    /\ cycleTicks' = 0
    /\ dispatched' = NoSignal
    /\ completed' = NoResponse
    /\ resetDuringFetch' = (tipRequests > 0)
    /\ UNCHANGED <<page, fillProbe, phase, isLoadingTip>>
    /\ UNCHANGED <<notificationInWindow, permission, pendingRequests,
                   tipRequests, flashOn, flashTimeouts>>

\* the view is removed: cleanup of the timer effect
Unmount ==
    /\ Mounted
    /\ phase' = "unmounted"
    /\ LET ts == TimerCleanup(Timer)
       IN /\ hydrationIntervalRef' = ts.ref
          /\ intervals' = ts.live
    /\ dispatched' = NoSignal
    /\ completed' = NoResponse
    /\ resetDuringFetch' = resetDuringFetch
    /\ UNCHANGED <<page, fillProbe, viewVars, platformVars, cycleTicks>>

\* the setTimeout callback of showMessage
DismissMessage ==
    /\ dismissTimeouts > 0
    /\ dismissTimeouts' = dismissTimeouts - 1
    /\ messageBox' = IF Alive THEN Hidden ELSE messageBox
    /\ dispatched' = NoSignal
    /\ completed' = NoResponse
    /\ resetDuringFetch' = resetDuringFetch
    /\ UNCHANGED <<page, fillProbe, phase, currentWaterLevel, timerDuration, selectedBodyType,
                   reminderSettings, hydrationTip, isLoadingTip, cycleTicks>>
    /\ UNCHANGED timerVars
    /\ UNCHANGED <<notificationInWindow, permission, pendingRequests,
                   tipRequests, flashOn, flashTimeouts>>

\* variant: the timeout callback leaves the highlight classes in place
RemoveFlashKeepsHighlight ==
    /\ flashTimeouts > 0
    /\ flashTimeouts' = flashTimeouts - 1
    /\ dispatched' = NoSignal
    /\ completed' = NoResponse
    /\ resetDuringFetch' = resetDuringFetch
    /\ UNCHANGED <<page, fillProbe, phase, viewVars, timerVars, cycleTicks>>
    /\ UNCHANGED <<notificationInWindow, permission, pendingRequests,
                   tipRequests, dismissTimeouts, flashOn>>

\* the setTimeout callback of applyVisualFlash
RemoveFlash ==
    /\ flashTimeouts > 0
    /\ flashTimeouts' = flashTimeouts - 1
    /\ flashOn' = FALSE
    /\ dispatched' = NoSignal
    /\ completed' = NoResponse
    /\ resetDuringFetch' = resetDuringFetch
    /\ UNCHANGED <<page, fillProbe, phase, viewVars, timerVars, cycleTicks>>
    /\ UNCHANGED <<notificationInWindow, permission, pendingRequests,
                   tipRequests, dismissTimeouts>>

\* variant: a denial resets all three toggles instead of the notification
\* toggle alone
PermissionResponseResetsAll(answer) ==
    /\ pendingRequests > 0
    /\ permission # "default" => answer = permission
    /\ pendingRequests' = pendingRequests - 1
    /\ permission' = answer
    /\ LET granted == answer = "granted"
           m == ShowMessage(Msgs, IF granted THEN MsgEnabled ELSE MsgDenied)
           replaced == Alive /\ ~granted
           newSettings == IF replaced THEN AllOff ELSE reminderSettings
           ts == IF Mounted
                 THEN TimerEffect(Timer, timerDuration, timerDuration, replaced,
                                  newSettings)
                 ELSE Timer
       IN /\ m.timeouts <= MaxPendingTimeouts
          /\ messageBox' = m.box
          /\ dismissTimeouts' = m.timeouts
          /\ reminderSettings' = newSettings
          /\ hydrationIntervalRef' = ts.ref
          /\ intervals' = ts.live
    /\ cycleTicks' = 0 - 1
    /\ dispatched' = NoSignal
    /\ completed' = NoResponse
    /\ resetDuringFetch' = resetDuringFetch
    /\ UNCHANGED <<page, fillProbe, phase, currentWaterLevel, timerDuration,
                   selectedBodyType, hydrationTip, isLoadingTip>>
    /\ UNCHANGED <<notificationInWindow, tipRequests, flashOn, flashTimeouts>>

\* Notification.requestPermission() settles with the user's answer, then the
\* callback of requestNotificationPermission, the render and the timer effect
PermissionResponse(answer) ==
    /\ pendingRequests > 0
    /\ permission # "default" => answer = permission
    /\ pendingRequests' = pendingRequests - 1
    /\ permission' = answer
    /\ LET granted == answer = "granted"
           m == ShowMessage(Msgs, IF granted THEN MsgEnabled ELSE MsgDenied)
           replaced == Alive /\ ~granted
           newSettings == IF replaced
                          THEN [reminderSettings EXCEPT !.browser = FALSE]
                          ELSE reminderSettings
           ts == IF Mounted
                 THEN TimerEffect(Timer, timerDuration, timerDuration, replaced,
                                  newSettings)
                 ELSE Timer
       IN /\ m.timeouts <= MaxPendingTimeouts
          /\ messageBox' = m.box
          /\ dismissTimeouts' = m.timeouts
          /\ reminderSettings' = newSettings
          /\ hydrationIntervalRef' = ts.ref
          /\ intervals' = ts.live
    /\ cycleTicks' = 0 - 1
    /\ dispatched' = NoSignal
    /\ completed' = NoResponse
    /\ resetDuringFetch' = resetDuringFetch
    /\ UNCHANGED <<page, fillProbe, phase, currentWaterLevel, timerDuration, selectedBodyType,
                   hydrationTip, isLoadingTip>>
    /\ UNCHANGED <<notificationInWindow, tipRequests, flashOn, flashTimeouts>>

\* variant: the previous tip is left in place while loading
GetHydrationTipKeepsTip ==
    /\ Mounted
    /\ ~isLoadingTip
    /\ isLoadingTip' = TRUE
    /\ tipRequests' = tipRequests + 1
    /\ cycleTicks' = 0 - 1
    /\ dispatched' = NoSignal
    /\ completed' = NoResponse
    /\ resetDuringFetch' = FALSE
    /\ UNCHANGED <<page, fillProbe, phase, currentWaterLevel, timerDuration,
                   selectedBodyType, reminderSettings, messageBox, hydrationTip>>
    /\ UNCHANGED timerVars
    /\ UNCHANGED <<notificationInWindow, permission, pendingRequests,
                   dismissTimeouts, flashOn, flashTimeouts>>

\* variant: the button is not disabled while loading
GetHydrationTipWhileLoading ==
    /\ Mounted
    /\ isLoadingTip' = TRUE
    /\ hydrationTip' = TipNone
    /\ tipRequests' = tipRequests + 1
    /\ cycleTicks' = 0 - 1
    /\ dispatched' = NoSignal
    /\ completed' = NoResponse
    /\ resetDuringFetch' = FALSE
    /\ UNCHANGED <<page, fillProbe, phase, currentWaterLevel, timerDuration, selectedBodyType,
                   reminderSettings, messageBox>>
    /\ UNCHANGED timerVars
    /\ UNCHANGED <<notificationInWindow, permission, pendingRequests,
                   dismissTimeouts, flashOn, flashTimeouts>>

\* getHydrationTip up to its first await; the button is disabled while loading
GetHydrationTip ==
    /\ Mounted
    /\ ~isLoadingTip
    /\ isLoadingTip' = TRUE
    /\ hydrationTip' = TipNone
    /\ tipRequests' = tipRequests + 1
    /\ cycleTicks' = 0 - 1
    /\ dispatched' = NoSignal
    /\ completed' = NoResponse
    /\ resetDuringFetch' = FALSE
    /\ UNCHANGED <<page, fillProbe, phase, currentWaterLevel, timerDuration, selectedBodyType,
                   reminderSettings, messageBox>>
    /\ UNCHANGED timerVars
    /\ UNCHANGED <<notificationInWindow, permission, pendingRequests,
                   dismissTimeouts, flashOn, flashTimeouts>>

\* ------------------------------------------------------- tip responses
\* How a tip request completes.  fetch: the promise of fetch() resolved or
\* rejected; ok: response.ok; json: response.json() gave an object, gave
\* null, or threw; candidates, parts: the length of result.candidates and of
\* result.candidates[0].content.parts (Missing if the field is absent);
\* content: result.candidates[0].content is present; text: what the 'text'
\* field of the first part is.  Fields the code never gets to look at have
\* one fixed value.
Missing == 0 - 1

Responses ==
    {r \in [fetch : {"resolved", "rejected"}, ok : BOOLEAN,
            json : {"parsed", "null", "invalid"},
            candidates : Missing..MaxListLen, content : BOOLEAN,
            parts : Missing..MaxListLen,
            text : {"string", "missing", "number"}] :
        /\ r.fetch = "rejected" => ~r.ok
        /\ ~r.ok => r.json = "invalid"
        /\ r.json # "parsed" => r.candidates = Missing
        /\ r.candidates <= 0 => ~r.content
        /\ ~r.content => r.parts = Missing
        /\ r.parts <= 0 => r.text = "missing"}

\* one failing response (fetch rejected) and one of the expected shape
ResponseSamples ==
    {r \in Responses :
        \/ r.fetch = "rejected"
        \/ r.parts = 1 /\ r.candidates = 1 /\ r.text = "string"}

TipNonString == "<non-string value of the text field>"
TipOtherText == "<text of another part or candidate>"

\* the try block throws: fetch rejected, 'HTTP error!' thrown for a non-OK
\* status, json() threw, or result is null and result.candidates throws
Thrown(r) == r.fetch = "rejected" \/ ~r.ok \/ r.json # "parsed"

\* the condition guarding the success branch
ExpectedShape(r) == r.candidates > 0 /\ r.content /\ r.parts > 0

\* variant: the text of the last part is taken
ExtractedFromLastPart(r) ==
    IF r.parts > 1 THEN TipOtherText
    ELSE CASE r.text = "string" -> TipText
           [] r.text = "missing" -> TipUndefined
           [] r.text = "number" -> TipNonString

\* result.candidates[0].content.parts[0].text, whatever it is
Extracted(r) ==
    CASE r.text = "string" -> TipText
      [] r.text = "missing" -> TipUndefined
      [] r.text = "number" -> TipNonString

\* the tip stored for a response
TipFor(r) ==
    IF Thrown(r) THEN TipNetwork
    ELSE IF ExpectedShape(r) THEN Extracted(r)
    ELSE TipMalformed

\* variant: no transient message in the catch block
TipMessageNever(m, r) == m

\* the transient message: showMessage is called in the catch block only
TipMessage(m, r) ==
    IF Thrown(r) THEN ShowMessage(m, MsgTipFailed) ELSE m

\* variant: loading is cleared at the end of the try block, not in finally
LoadingAfterTryOnly(r) == Thrown(r)

\* isLoadingTip after the finally block
LoadingAfter(r) == FALSE

\* getHydrationTip from the settled fetch to the end of its finally block
TipResponse(r) ==
    /\ tipRequests > 0
    /\ tipRequests' = tipRequests - 1
    /\ hydrationTip' = IF Alive THEN TipFor(r) ELSE hydrationTip
    /\ isLoadingTip' = IF Alive THEN LoadingAfter(r) ELSE isLoadingTip
    /\ LET m == TipMessage(Msgs, r)
       IN /\ m.timeouts <= MaxPendingTimeouts
          /\ messageBox' = m.box
          /\ dismissTimeouts' = m.timeouts
    /\ dispatched' = NoSignal
    /\ completed' = r
    /\ resetDuringFetch' = FALSE
    /\ UNCHANGED <<page, fillProbe, phase, currentWaterLevel, timerDuration,
                   selectedBodyType, reminderSettings, cycleTicks>>
    /\ UNCHANGED timerVars
    /\ UNCHANGED <<notificationInWindow, permission, pendingRequests, flashOn,
                   flashTimeouts>>

\* the three fill-colour computations and the geometry of the water
\* cylinder applied to one fill level
UpdateWaterLevelVisual(level) ==
    /\ fillProbe' = [level |-> level,
                     page2d |-> FillColour2D(level),
                     page3d |-> FillColour3D(level),
                     model |-> ModelColour(level),
                     water |-> WaterExtent(level)]
    /\ UNCHANGED <<page, phase, viewVars, timerVars, platformVars, dispatched,
                   cycleTicks, completed, resetDuringFetch>>

Next ==
    \/ Mount
    \/ Tick
    \/ \E v \in SliderValues : HandleTimerChange(ParseInt(v))
    \/ \E c \in Channels : HandleReminderChange(c)
    \/ \E b \in BodyTypes : HandleBodyTypeChange(b)
    \/ ResetHydration
    \/ ResetAll
    \/ Unmount
    \/ DismissMessage
    \/ RemoveFlash
    \/ \E answer \in Permissions : PermissionResponse(answer)
    \/ GetHydrationTip
    \/ \E r \in Responses : TipResponse(r)

Spec == Init /\ [][Next]_vars

\* the depletion driver with the reminder toggles and both resets; the body
\* selector and the tip fetcher are left alone
NextTimer ==
    \/ Mount
    \/ Tick
    \/ \E v \in SliderValues : HandleTimerChange(ParseInt(v))
    \/ \E c \in Channels : HandleReminderChange(c)
    \/ ResetHydration
    \/ ResetAll
    \/ Unmount
    \/ DismissMessage
    \/ RemoveFlash
    \/ \E answer \in Permissions : PermissionResponse(answer)

SpecTimer == Init /\ [][NextTimer]_vars

\* every control of the mounted view, on a platform where the notification
\* permission was granted in an earlier visit (no request is ever pending)
InitGranted == Init /\ notificationInWindow /\ permission = "granted"

NextView ==
    \/ Mount
    \/ Tick
    \/ \E v \in SliderValues : HandleTimerChange(ParseInt(v))
    \/ \E c \in Channels : HandleReminderChange(c)
    \/ \E b \in BodyTypes : HandleBodyTypeChange(b)
    \/ ResetHydration
    \/ ResetAll
    \/ DismissMessage
    \/ RemoveFlash
    \/ GetHydrationTip
    \/ \E r \in ResponseSamples : TipResponse(r)

SpecView == InitGranted /\ [][NextView]_vars

\* SpecTimer where a registered flash-removal timeout eventually fires, as the
\* browser's timer queue guarantees
SpecTimerFair == SpecTimer /\ WF_vars(RemoveFlash)

\* SpecTimer where the browser runs what the code has scheduled: the effects
\* of the first render, the interval callback of a live task and the
\* callbacks of registered timeouts
SpecTimerLive ==
    /\ SpecTimer
    /\ WF_vars(Mount)
    /\ WF_vars(Tick)
    /\ WF_vars(DismissMessage)
    /\ WF_vars(RemoveFlash)

\* the tip fetcher with every response shape, next to the other sources of
\* transient messages that need no tick: both resets and the body selector
NextTip ==
    \/ Mount
    \/ GetHydrationTip
    \/ \E r \in Responses : TipResponse(r)
    \/ \E b \in BodyTypes : HandleBodyTypeChange(b)
    \/ ResetHydration
    \/ ResetAll
    \/ Unmount
    \/ DismissMessage

SpecTip == Init /\ [][NextTip]_vars

\* SpecTip where a registered dismissal timeout eventually fires, as the
\* browser's timer queue guarantees
SpecTipFair == SpecTip /\ WF_vars(DismissMessage)

\* the settings controls (toggles, slider, body selector, tip fetcher) of a
\* view that is never reset, on a platform that has not been asked for the
\* notification permission yet
InitUnasked == Init /\ notificationInWindow /\ permission = "default"

NextSettings ==
    \/ Mount
    \/ Tick
    \/ \E v \in SliderValues : HandleTimerChange(ParseInt(v))
    \/ \E c \in Channels : HandleReminderChange(c)
    \/ \E b \in BodyTypes : HandleBodyTypeChange(b)
    \/ \E answer \in Permissions : PermissionResponse(answer)
    \/ GetHydrationTip
    \/ \E r \in ResponseSamples : TipResponse(r)
    \/ DismissMessage
    \/ RemoveFlash

SpecSettings == InitUnasked /\ [][NextSettings]_vars

\* leaving the page with callbacks pending: the sources of pending callbacks
\* (the emptying tick, the toggles and the permission prompt, the tip
\* fetcher), the unmount and the callbacks themselves
NextTeardown ==
    \/ Mount
    \/ Tick
    \/ \E c \in Channels : HandleReminderChange(c)
    \/ GetHydrationTip
    \/ Unmount
    \/ DismissMessage
    \/ RemoveFlash
    \/ \E answer \in Permissions : PermissionResponse(answer)
    \/ \E r \in ResponseSamples : TipResponse(r)

SpecTeardown == Init /\ [][NextTeardown]_vars

\* the fill-colour computations on every fill level in steps of
\* 1/ProbeScale percent
NextFill == \E level \in ProbeLevels : UpdateWaterLevelVisual(level)

SpecFill == Init /\ [][NextFill]_vars

\* ================================================================= claims

\* a step in which a live recurring task fired
TickStep == Tick

\* a step that changed the duration without showing a message: the slider
\* ('Reset All' always registers message timeouts)
DurationChangeStep ==
    /\ timerDuration' # timerDuration
    /\ dismissTimeouts' = dismissTimeouts

\* 'Reset All' is the only step that calls showMessage twice
ResetAllStep == dismissTimeouts' >= dismissTimeouts + 2

\* C1: in every reachable state fillPercent (currentWaterLevel) is within
\* [0,100]; no tick leaves it negative.
C1_FillPercentInRange ==
    /\ currentWaterLevel >= 0
    /\ currentWaterLevel <= FullLevel

\* the level was clamped to 0 by a tick whose subtraction went below zero
\* (one tick after a full cycle that had left the rounding residue)
C1_Witness ==
    /\ currentWaterLevel = 0
    /\ dispatched.called
    /\ cycleTicks = TicksFor(timerDuration) + 1

\* C2: at most one recurring tick task is live at any time, whatever the
\* interleaving of mount, duration change, toggles, resets, empty and unmount.
C2_AtMostOneLiveTask == Cardinality(intervals) <= 1

\* a task created while an earlier handle was still in the ref is the only one
C2_Witness ==
    /\ Mounted
    /\ \E t \in intervals : t.id = 2 /\ hydrationIntervalRef = 2

\* C3 as written: in every state of the mounted view exactly one recurring
\* task is live.
C3_ExactlyOneLiveTask == Mounted => Cardinality(intervals) = 1

\* C3 amended: in every state of the mounted view exactly one recurring task
\* is live while fillPercent > 0, and at most one is live otherwise.
C3_OneLiveTaskWhileWaterRemains ==
    Mounted =>
        /\ Cardinality(intervals) <= 1
        /\ currentWaterLevel > 0 => Cardinality(intervals) = 1

\* water remains after an earlier task was replaced, and one task is live
C3_Witness ==
    /\ Mounted
    /\ currentWaterLevel > 0
    /\ currentWaterLevel < FullLevel
    /\ hydrationIntervalRef = 2
    /\ Cardinality(intervals) = 1

\* C4: started at 100 with the duration D left alone, fillPercent is positive
\* before tick D*60, is 0 after D*60 ticks (one tick later at the latest),
\* never negative, and every tick of the cycle lowers it.
C4_DepletesInDurationTicks ==
    /\ [](cycleTicks >= 0 =>
            /\ currentWaterLevel >= 0
            /\ cycleTicks < TicksFor(timerDuration) => currentWaterLevel > 0
            /\ cycleTicks = TicksFor(timerDuration) =>
                    currentWaterLevel \in {0, Residue}
            /\ cycleTicks > TicksFor(timerDuration) => currentWaterLevel = 0)
    /\ [][cycleTicks >= 0 /\ cycleTicks' = cycleTicks + 1 =>
            currentWaterLevel' < currentWaterLevel]_vars

\* C5: every tick that does not reach empty lowers fillPercent by
\* 100/(D*60) for the duration D configured at the time of the tick.
C5_TickUsesCurrentDuration ==
    [][currentWaterLevel' < currentWaterLevel /\ currentWaterLevel' > 0 =>
         currentWaterLevel' \in
            Rounded(currentWaterLevel - WaterDecreasePerSecond(timerDuration))]_vars

\* the level is full less one tick at the default duration and one tick at
\* the next shorter slider position: a tick followed a change of duration
C5_Witness ==
    /\ Mounted
    /\ cycleTicks = 0 - 1
    /\ currentWaterLevel = FullLevel - WaterDecreasePerSecond(DefaultDuration)
                              - WaterDecreasePerSecond(DefaultDuration - SliderStep)

\* C6: the tick whose result is <= 0 sets fillPercent to 0, cancels the live
\* task (handle null) and signals empty (triggerReminder and the 'Time to
\* drink water!' message) in the same step.
C6_EmptyingTickClampsCancelsSignals ==
    [][TickStep /\ ~(currentWaterLevel' > 0 /\ currentWaterLevel' < currentWaterLevel) =>
         /\ currentWaterLevel' = 0
         /\ intervals' = {}
         /\ hydrationIntervalRef' = Null
         /\ dispatched'.called
         /\ messageBox' = [message |-> MsgTimeToDrink, visible |-> TRUE]]_vars

\* C7: while fillPercent remains 0 no recurring task is live and no further
\* empty signal is dispatched, whatever the user does meanwhile.
C7_HaltedWhileEmpty ==
    /\ [](Mounted /\ currentWaterLevel = 0 => intervals = {})
    /\ [][currentWaterLevel = 0 => ~dispatched'.called]_vars

\* C8: a duration change while a task is live cancels exactly that task and
\* starts exactly one; afterwards the new task is the only live one, it is
\* the one in the ref and it runs with the new duration.
C8_DurationChangeReplacesTask ==
    [][DurationChangeStep /\ intervals # {} =>
         /\ Cardinality(intervals \ intervals') = 1
         /\ Cardinality(intervals' \ intervals) = 1
         /\ Cardinality(intervals') = 1
         /\ Handles(intervals') \cap Handles(intervals) = {}
         /\ Handles(intervals') = {hydrationIntervalRef'}
         /\ \A t \in intervals' : t.duration = timerDuration']_vars

\* the slider was moved mid-cycle and the task created then is the live one
C8_Witness ==
    /\ Mounted
    /\ cycleTicks = 0 - 1
    /\ timerDuration # DefaultDuration
    /\ currentWaterLevel > 0
    /\ currentWaterLevel < FullLevel
    /\ \E t \in intervals : t.id = 2 /\ t.duration = timerDuration

\* C9: the duration change leaves fillPercent, the body variant, the three
\* reminder toggles, the tip and the loading flag as they were.
C9_DurationChangeFrame ==
    [][DurationChangeStep =>
         /\ currentWaterLevel' = currentWaterLevel
         /\ selectedBodyType' = selectedBodyType
         /\ reminderSettings' = reminderSettings
         /\ hydrationTip' = hydrationTip
         /\ isLoadingTip' = isLoadingTip]_vars

\* the duration was changed mid-cycle in a state where none of the framed
\* fields has its default value, and they still have those values
C9_Witness ==
    /\ Mounted
    /\ cycleTicks = 0 - 1
    /\ timerDuration # DefaultDuration
    /\ currentWaterLevel = FullLevel - WaterDecreasePerSecond(DefaultDuration)
    /\ selectedBodyType = "muscular"
    /\ reminderSettings = [browser |-> TRUE, sound |-> FALSE, visual |-> TRUE]
    /\ hydrationTip = TipText
    /\ isLoadingTip = FALSE

\* C10: after 'Reset All' fillPercent = 100, durationMinutes = 60, the body
\* variant is generic, all reminder channels are off and the tip is "".
C10_ResetAllRestoresDefaults ==
    [][ResetAllStep =>
         /\ currentWaterLevel' = FullLevel
         /\ timerDuration' = DefaultDuration
         /\ selectedBodyType' = "generic"
         /\ reminderSettings' = AllOff
         /\ hydrationTip' = TipNone]_vars

\* 'Reset All' has just run although a visual flash from an earlier empty
\* signal is still on and a tip request is still outstanding
C10_Witness ==
    /\ Mounted
    /\ messageBox = [message |-> MsgAllReset, visible |-> TRUE]
    /\ dismissTimeouts >= 2
    /\ flashOn
    /\ isLoadingTip
    /\ currentWaterLevel = FullLevel
    /\ reminderSettings = AllOff

\* 'Drink Now!' is the only step that shows the hydration-reset message and
\* registers exactly one message timeout
ResetHydrationStep ==
    /\ messageBox' = [message |-> MsgHydrationReset, visible |-> TRUE]
    /\ dismissTimeouts' = dismissTimeouts + 1

\* a step in which the empty signal was raised (triggerReminder was called)
EmptySignalStep == dispatched'.called

\* C11: 'Drink Now!' from any reachable state, the halted one included, sets
\* fillPercent to 100 and leaves exactly one live recurring task (the one in
\* the ref), with the duration, the body variant, the reminder toggles and
\* the tip unchanged.
C11_DrinkNowRefillsAndRestarts ==
    [][ResetHydrationStep =>
         /\ currentWaterLevel' = FullLevel
         /\ Cardinality(intervals') = 1
         /\ Handles(intervals') = {hydrationIntervalRef'}
         /\ timerDuration' = timerDuration
         /\ selectedBodyType' = selectedBodyType
         /\ reminderSettings' = reminderSettings
         /\ hydrationTip' = hydrationTip]_vars

\* 'Drink Now!' has just run after an empty signal whose flash is still on,
\* with none of the framed fields at its default value
C11_Witness ==
    /\ Mounted
    /\ messageBox = [message |-> MsgHydrationReset, visible |-> TRUE]
    /\ cycleTicks = 0
    /\ currentWaterLevel = FullLevel
    /\ Cardinality(intervals) = 1
    /\ flashOn
    /\ timerDuration # DefaultDuration
    /\ selectedBodyType = "slim"
    /\ reminderSettings = [browser |-> FALSE, sound |-> TRUE, visual |-> TRUE]
    /\ hydrationTip = TipText

\* C12: on the empty signal the dispatcher invokes exactly the channels whose
\* toggle is on when the level reaches 0, and no channel whose toggle is off.
C12_InvokesExactlyEnabledChannels ==
    [][EmptySignalStep =>
         dispatched'.channels = {c \in Channels : reminderSettings[c]}]_vars

\* C13: when the notification channel fails on the empty signal (its toggle
\* is on and the platform has no Notification), the audio and visual channels
\* that are enabled are still invoked and fillPercent is still set to 0.
C13_NotificationFailureDoesNotBlock ==
    [][EmptySignalStep /\ reminderSettings.browser /\ ~notificationInWindow =>
         /\ reminderSettings.sound => "sound" \in dispatched'.channels
         /\ reminderSettings.visual => "visual" \in dispatched'.channels
         /\ currentWaterLevel' = 0]_vars

\* the user ticked the notification checkbox
NotificationToggledOn == reminderSettings'.browser /\ ~reminderSettings.browser

\* a permission request settled with something other than "granted"
DenialStep ==
    /\ pendingRequests' = pendingRequests - 1
    /\ permission' # "granted"

\* C14: ticking the notification toggle while the permission is 'default'
\* issues a permission request; when the answer is a denial the notification
\* toggle is off again, the other two toggles keep the values the user gave
\* them meanwhile, and a message tells the user.
C14_DenialRevertsNotificationToggle ==
    /\ [][NotificationToggledOn /\ notificationInWindow /\ permission = "default" =>
            pendingRequests' = pendingRequests + 1]_vars
    /\ [][DenialStep /\ Mounted =>
            /\ ~reminderSettings'.browser
            /\ reminderSettings'.sound = reminderSettings.sound
            /\ reminderSettings'.visual = reminderSettings.visual
            /\ messageBox' = [message |-> MsgDenied, visible |-> TRUE]]_vars

\* the request was denied: the denial message is up, the notification toggle
\* is off and the other two toggles, ticked meanwhile, are still on
C14_Witness ==
    /\ Mounted
    /\ permission = "denied"
    /\ pendingRequests = 0
    /\ messageBox = [message |-> MsgDenied, visible |-> TRUE]
    /\ reminderSettings = [browser |-> FALSE, sound |-> TRUE, visual |-> TRUE]

\* C15: in every quiescent state (no permission request pending) of the
\* mounted view where the platform permission is 'denied', the notification
\* toggle is off, also when the permission was denied before the toggle was
\* ticked.
C15_DeniedMeansNotificationOff ==
    Mounted /\ pendingRequests = 0 /\ permission = "denied" =>
        ~reminderSettings.browser

\* C16: the empty signal creates a platform notification only when the
\* permission is 'granted' at dispatch time; with the toggle on and the
\* permission 'default' or 'denied' it creates none.
C16_NotificationOnlyWhenGranted ==
    [][EmptySignalStep /\ dispatched'.notification =>
         /\ notificationInWindow
         /\ permission = "granted"
         /\ reminderSettings.browser]_vars

\* the empty signal invoked the notification channel while the permission
\* request was still unanswered, and no notification was created
C16_Witness ==
    /\ dispatched.called
    /\ "browser" \in dispatched.channels
    /\ ~dispatched.notification
    /\ permission = "default"
    /\ pendingRequests = 1
    /\ currentWaterLevel = 0

\* C17: when the audio cue fails to play on the empty signal, the visual
\* channel (if enabled) is still invoked, fillPercent becomes 0, the task is
\* cancelled and the view stays mounted.
C17_AudioFailureSwallowed ==
    [][EmptySignalStep /\ dispatched'.audioFailed =>
         /\ reminderSettings.visual =>
                "visual" \in dispatched'.channels /\ flashOn'
         /\ currentWaterLevel' = 0
         /\ intervals' = {}
         /\ hydrationIntervalRef' = Null
         /\ phase' = "mounted"]_vars

\* the audio cue failed on an empty signal and the flash was applied
C17_Witness ==
    /\ Mounted
    /\ dispatched.audioFailed
    /\ dispatched.channels = {"sound", "visual"}
    /\ flashOn
    /\ currentWaterLevel = 0
    /\ intervals = {}

\* C18: each visual flash applies the highlight and registers its removal;
\* the removal timeout takes the highlight off, so the highlight is on only
\* while a removal is pending and is always taken off again.
C18_FlashIsTransient ==
    /\ [](flashOn => flashTimeouts > 0)
    /\ [][EmptySignalStep /\ "visual" \in dispatched'.channels =>
            flashOn' /\ flashTimeouts' = flashTimeouts + 1]_vars
    /\ [][flashTimeouts' < flashTimeouts => ~flashOn']_vars
    /\ (flashOn ~> ~flashOn)

\* the flash of an empty signal came and went: the level is still 0 with the
\* visual toggle on and no task restarted, and no highlight or removal is left
C18_Witness ==
    /\ Mounted
    /\ currentWaterLevel = 0
    /\ intervals = {}
    /\ reminderSettings.visual
    /\ messageBox = [message |-> MsgTimeToDrink, visible |-> TRUE]
    /\ ~flashOn
    /\ flashTimeouts = 0

\* C19: the fill colour depends on fillPercent only: #ef4444 below 30,
\* #f97316 from 30 up to but not including 60, #60a5fa from 60 on; the 2D
\* page, the 3D page and HumanModel3D give the same colour for every level.
C19_FillColourThresholds ==
    fillProbe # NoProbe =>
        LET expected == IF fillProbe.level < 30 * ProbeScale THEN "#ef4444"
                        ELSE IF fillProbe.level < 60 * ProbeScale THEN "#f97316"
                        ELSE "#60a5fa"
        IN /\ fillProbe.page2d = expected
           /\ fillProbe.page3d = expected
           /\ fillProbe.model = expected

\* exactly 30 percent was coloured, and all three gave the warning colour
C19_Witness ==
    /\ fillProbe.level = 30 * ProbeScale
    /\ fillProbe.page2d = "#f97316"
    /\ fillProbe.page3d = "#f97316"
    /\ fillProbe.model = "#f97316"

\* a step in which the tip fetcher was invoked
GetHydrationTipStep == isLoadingTip' /\ ~isLoadingTip

\* C20: invoking the tip fetcher sets loading, clears the stored tip to ""
\* and issues exactly one outbound request, all before a response arrives.
C20_TipFetchStartsClean ==
    [][GetHydrationTipStep =>
         /\ isLoadingTip'
         /\ hydrationTip' = TipNone
         /\ tipRequests' = tipRequests + 1]_vars

\* a fetch is outstanding with the tip cleared, while the failure message of
\* the previous fetch (which had stored a tip) is still shown
C20_Witness ==
    /\ Mounted
    /\ isLoadingTip
    /\ tipRequests = 1
    /\ hydrationTip = TipNone
    /\ messageBox = [message |-> MsgTipFailed, visible |-> TRUE]

\* a step of the mounted view that processed the response of a tip request
ResponseStep == completed' # NoResponse /\ Mounted

\* HTTP OK, parsed, with a first candidate whose first part has a string text
SuccessfulResponse(r) ==
    /\ r.fetch = "resolved" /\ r.ok /\ r.json = "parsed"
    /\ r.candidates >= 1 /\ r.content /\ r.parts >= 1
    /\ r.text = "string"

\* the fetch was rejected or the HTTP status was not OK
TransportFailure(r) == r.fetch = "rejected" \/ (r.fetch = "resolved" /\ ~r.ok)

\* HTTP OK and parsed, but candidates, content or parts is missing or empty
MalformedResponse(r) ==
    /\ r.fetch = "resolved" /\ r.ok /\ r.json = "parsed"
    /\ (r.candidates <= 0 \/ ~r.content \/ r.parts <= 0)

\* the user-facing failure strings
FailureStrings == {TipMalformed, TipNetwork}

\* C21: on a successful response of the expected shape the stored tip is the
\* text of the first part of the first candidate, and no failure string and
\* no transient message is produced.
C21_SuccessStoresFirstText ==
    [][ResponseStep /\ SuccessfulResponse(completed') =>
         /\ hydrationTip' = TipText
         /\ messageBox' = messageBox
         /\ dismissTimeouts' = dismissTimeouts]_vars

\* a response with two candidates and two parts was processed and the tip is
\* the first text
C21_Witness ==
    /\ Mounted
    /\ SuccessfulResponse(completed)
    /\ completed.candidates = 2
    /\ completed.parts = 2
    /\ hydrationTip = TipText
    /\ ~messageBox.visible

\* C22: a tip fetch that fails in transport (or with a non-OK status) ends
\* with loading false and a non-empty failure string as the tip, shows a
\* transient message and registers its dismissal; the dismissal hides the
\* message, so a visible message always goes away again.
C22_TransportFailureHandled ==
    /\ [][ResponseStep /\ TransportFailure(completed') =>
            /\ ~isLoadingTip'
            /\ hydrationTip' \in FailureStrings
            /\ messageBox' = [message |-> MsgTipFailed, visible |-> TRUE]
            /\ dismissTimeouts' = dismissTimeouts + 1]_vars
    /\ [][dismissTimeouts' < dismissTimeouts /\ Mounted =>
            ~messageBox'.visible]_vars
    /\ ((Mounted /\ messageBox.visible) ~> (~messageBox.visible \/ ~Mounted))

\* a non-OK status was processed: failure string, loading cleared, message up
C22_Witness ==
    /\ Mounted
    /\ completed.fetch = "resolved"
    /\ ~completed.ok
    /\ hydrationTip = TipNetwork
    /\ ~isLoadingTip
    /\ messageBox = [message |-> MsgTipFailed, visible |-> TRUE]
    /\ dismissTimeouts > 0

\* C23: a malformed response (HTTP OK, candidates, content or parts missing
\* or empty) stores a non-empty failure string as the tip and surfaces a
\* transient message, like a transport failure.
C23_MalformedHandledLikeFailure ==
    [][ResponseStep /\ MalformedResponse(completed') =>
         /\ hydrationTip' \in FailureStrings
         /\ messageBox'.visible
         /\ dismissTimeouts' = dismissTimeouts + 1]_vars

\* C24: every response that deviates from the expected success shape, a first
\* part without a string text included, leaves a non-empty failure string as
\* the tip, never the missing or non-string value.
C24_DeviationIsFailure ==
    [][ResponseStep /\ ~SuccessfulResponse(completed') =>
         hydrationTip' \in FailureStrings]_vars

\* C25: whichever way a tip request completes, loading is false afterwards,
\* and loading is never true while no request is outstanding.
C25_LoadingClearedOnCompletion ==
    /\ [][ResponseStep => ~isLoadingTip']_vars
    /\ [](Mounted /\ tipRequests = 0 => ~isLoadingTip)

\* the request completed by a throw in the try block (json() threw) and
\* loading is off with nothing outstanding
C25_Witness ==
    /\ Mounted
    /\ completed.fetch = "resolved"
    /\ completed.ok
    /\ completed.json = "invalid"
    /\ tipRequests = 0
    /\ ~isLoadingTip

\* C27: unmounting cancels the active timer handle: in the unmounted view no
\* recurring task is live and no step changes fillPercent or raises the empty
\* signal, whichever action created the last handle.
C27_UnmountCancelsTimer ==
    /\ [](phase = "unmounted" => intervals = {})
    /\ [][phase = "unmounted" =>
            /\ intervals' = {}
            /\ currentWaterLevel' = currentWaterLevel
            /\ ~dispatched'.called]_vars

\* the view was unmounted mid-cycle; the last handle had been created by a
\* reminder toggle after the duration was changed
C27_Witness ==
    /\ phase = "unmounted"
    /\ intervals = {}
    /\ hydrationIntervalRef # Null
    /\ timerDuration # DefaultDuration
    /\ reminderSettings.sound
    /\ currentWaterLevel > 0
    /\ currentWaterLevel < FullLevel

\* C28: durationMinutes is an integer within [30,240] in every reachable
\* state, also the duration every live task runs with, so the per-tick
\* divisor D*60 is always positive.
C28_DurationInRange ==
    /\ timerDuration \in 30..240
    /\ timerDuration * 60 > 0
    /\ \A t \in intervals : t.duration \in 30..240

\* the slider delivered its minimum and the live task runs with it
C28_Witness ==
    /\ Mounted
    /\ timerDuration = 30
    /\ \E t \in intervals : t.duration = 30

\* a step that changed a reminder toggle, 'Reset All' excluded
ToggleStep == reminderSettings' # reminderSettings /\ ~ResetAllStep

\* C29: a toggle, and likewise the denial callback, changes exactly one
\* reminder channel and leaves the other two, fillPercent, the duration, the
\* body variant and the tip unchanged; the denial callback changes no channel
\* but the notification channel.
C29_TogglesIndependent ==
    /\ [][ToggleStep =>
            /\ Cardinality({c \in Channels :
                              reminderSettings'[c] # reminderSettings[c]}) = 1
            /\ currentWaterLevel' = currentWaterLevel
            /\ timerDuration' = timerDuration
            /\ selectedBodyType' = selectedBodyType
            /\ hydrationTip' = hydrationTip]_vars
    /\ [][DenialStep /\ Mounted =>
            /\ reminderSettings'.sound = reminderSettings.sound
            /\ reminderSettings'.visual = reminderSettings.visual
            /\ currentWaterLevel' = currentWaterLevel
            /\ timerDuration' = timerDuration
            /\ selectedBodyType' = selectedBodyType
            /\ hydrationTip' = hydrationTip]_vars

\* the denial callback has run and two channels are on, with none of the
\* framed fields at its default value
C29_Witness ==
    /\ Mounted
    /\ permission = "denied"
    /\ pendingRequests = 0
    /\ reminderSettings = [browser |-> FALSE, sound |-> TRUE, visual |-> TRUE]
    /\ currentWaterLevel > 0
    /\ currentWaterLevel < FullLevel
    /\ timerDuration # DefaultDuration
    /\ selectedBodyType = "muscular"
    /\ hydrationTip = TipText

C32_WelcomeOnlyOnMount ==
    [][Mounted /\ dismissTimeouts' > dismissTimeouts
       => messageBox' # [message |-> MsgWelcome, visible |-> TRUE]]_vars

\* C33: whenever the view is mounted and water remains (fillPercent > 0),
\* a recurring task is live
C33_TaskLiveWhileWaterRemains ==
    Mounted /\ currentWaterLevel > 0 => intervals # {}

\* the last grain of water of an undisturbed cycle: the rounded subtraction
\* left a positive remainder and the task is still live
C33_Witness ==
    /\ Mounted
    /\ currentWaterLevel = Residue
    /\ cycleTicks = TicksFor(timerDuration)
    /\ Cardinality(intervals) = 1

\* C34: toggling a reminder channel, and the permission-denial callback,
\* cancel the live recurring task and start a new one that closes over the
\* new toggles, at any fill level (also at 0)
C34_ToggleRestartsTask ==
    [][Mounted /\ (ToggleStep \/ DenialStep)
       => /\ Cardinality(intervals') = 1
          /\ Handles(intervals') \cap Handles(intervals) = {}
          /\ \A t \in intervals' :
                /\ t.id = hydrationIntervalRef'
                /\ t.duration = timerDuration
                /\ t.settings = reminderSettings']_vars

\* a denial arrived while the level was 0 and no slider change came before
\* it: the countdown runs again on an empty level
C34_Witness ==
    /\ Mounted
    /\ currentWaterLevel = 0
    /\ messageBox = [message |-> MsgDenied, visible |-> TRUE]
    /\ permission = "denied"
    /\ Cardinality(intervals) = 1
    /\ \A t \in intervals : t.settings = reminderSettings

\* a step taken by the user: a control of the view, the answer to the
\* permission prompt, or leaving the page
UserStep ==
    \/ \E v \in SliderValues : HandleTimerChange(ParseInt(v))
    \/ \E c \in Channels : HandleReminderChange(c)
    \/ ResetHydration
    \/ ResetAll
    \/ Unmount
    \/ \E answer \in Permissions : PermissionResponse(answer)

\* C35: if from some point on the user does nothing more, then, unless the
\* user left the page, fillPercent eventually is 0 and stays 0 with no
\* recurring task live
C35_IdleViewRunsDry ==
    \/ []<><<UserStep>>_vars
    \/ <>[](phase = "unmounted")
    \/ <>[](currentWaterLevel = 0 /\ intervals = {})

\* C36: at most one tip request is outstanding at any time, and in a mounted
\* view loading is true exactly when a request is outstanding
C36_OneRequestWhileLoading ==
    /\ tipRequests <= 1
    /\ Mounted => (isLoadingTip <=> tipRequests = 1)

\* 'Reset All' was clicked while a request was outstanding: loading is still
\* true and the request still outstanding
C36_Witness ==
    /\ Mounted
    /\ isLoadingTip
    /\ tipRequests = 1
    /\ messageBox.message \in {MsgAllReset, MsgWelcome}
    /\ messageBox.visible
    /\ cycleTicks = 0

\* C37: the tip changes only in a fetch invocation, in the completion of a
\* request or in 'Reset All'; and once 'Reset All' has cleared it while a
\* request was outstanding it stays "" until the fetcher is invoked again
C37_TipStaysClearedAfterReset ==
    /\ [][hydrationTip' # hydrationTip
          => GetHydrationTipStep \/ ResponseStep \/ ResetAllStep]_vars
    /\ [][resetDuringFetch /\ ~GetHydrationTipStep
          => hydrationTip' = TipNone]_vars

\* C38: the dismissal timeout of an older message does not hide a newer
\* message.  Stated where the model knows which timeout fires: while a
\* message of the longest duration is visible, every other pending timeout
\* belongs to an older message and is due first, so the firing of a timeout
\* with two or more pending leaves the message visible
C38_OlderTimeoutLeavesNewerMessage ==
    [][/\ messageBox.visible
       /\ messageBox.message \in LongestMessages
       /\ dismissTimeouts >= 2
       /\ dismissTimeouts' < dismissTimeouts
       => messageBox' = messageBox]_vars

C40_WaterCylinderInsideBody ==
    fillProbe # NoProbe =>
        /\ fillProbe.water.bottom = BodyExtent.bottom
        /\ fillProbe.water.top <= BodyExtent.top
====
